---- MODULE Spec2Model ----
(***************************************************************************)
(* Model of the reversi back-end session (src/modules/reversi/back.ts).    *)
(*                                                                         *)
(* One Session object lives in one worker process.  Inbound messages of    *)
(* the parent are handled one at a time by onMessage; the only suspension  *)
(* points are the inference request of think() and the publish request of  *)
(* post(), whose completions are separate steps of the event loop.         *)
(*                                                                         *)
(* JavaScript values are encoded as follows: the booleans of Reversi.Color *)
(* are the strings "true" and "false", null is "null", undefined is        *)
(* "undefined"; an object or number that may be undefined is a sequence    *)
(* that is either empty (undefined) or holds the value as its only element.*)
(***************************************************************************)
EXTENDS Integers, Sequences, FiniteSets, TLC

VARIABLES
    account,        \* this.account.id, "undefined" before _init_
    game,           \* this.game
    form,           \* this.form: sequence of form items, <<>> before _init_
    engine,         \* this.engine
    botColor,       \* this.botColor
    appliedOps,     \* this.appliedOps
    maxTurn,        \* this.maxTurn
    currentTurn,    \* this.currentTurn
    thinks,         \* think() invocations suspended at the fetch() await
    posts,          \* onEnded invocations suspended at the got.post await
    sent,           \* number of {type: 'ended'} messages given to process.send
    publishCalls,   \* number of got.post requests issued
    exited,         \* the process has terminated
    exitCause,      \* which statement terminated it
    escaped,        \* an error left a handler (rejected promise nobody handles)
    text,           \* the serif chosen by the latest onEnded
    posted,         \* what post() returned to the latest onEnded that got it
    lastMsg,        \* history: type of the latest inbound message handled
    nEvents,        \* history: number of inbound messages handled
    applyCount,     \* history: per operation id of the game, how often a log
                    \* with it was applied
    logPos,         \* history: per operation id of the game, the position its
                    \* log carries (-1: not delivered yet)
    sinceStarted    \* history: operations applied since the latest 'started'

vars == <<account, game, form, engine, botColor, appliedOps, maxTurn,
          currentTurn, thinks, posts, sent, publishCalls, exited, exitCause,
          escaped, text, posted,
          lastMsg, nEvents, applyCount, logPos, sinceStarted>>

(***************************************************************************)
(* Bounds of the model.                                                    *)
(***************************************************************************)
MaxEvents == 4

ME == "me"

UserPairs == { <<"me", "u1">>, <<"u1", "me">>, <<"u1", "u2">> }

\* single-row board maps: one that a single move fills, one on which both
\* colors get to move, one on which white has to pass after black's move
Maps == { <<"b", "w", "-">>,
          <<"-", "b", "w", "-", "w">>,
          <<"b", "w", "-", "-", "w", "b">> }

LogIds == { "null", "a" }

Some(x) == <<x>>

(***************************************************************************)
(* The rules engine (./engine.js), for boards of a single row.             *)
(***************************************************************************)
BLACK == "true"

WHITE == "false"

Not(color) == IF color = BLACK THEN WHITE ELSE BLACK

RECURSIVE Ray(_, _, _, _, _, _)
Ray(board, map, color, p, d, found) ==
    IF p < 1 \/ p > Len(board) THEN {}
    ELSE IF map[p] = "null" THEN {}
    ELSE IF board[p] = "null" THEN {}
    ELSE IF board[p] = color THEN found
    ELSE Ray(board, map, color, p + d, d, found \cup {p})

Effects(board, map, color, p) ==
    Ray(board, map, color, p - 1, -1, {}) \cup Ray(board, map, color, p + 1, 1, {})

canPut(board, map, color, p) ==
    board[p] = "null" /\ Effects(board, map, color, p) # {}

canPutSomewhere(board, map, color) ==
    \E p \in 1..Len(board) : canPut(board, map, color, p)

calcTurn(board, map, prevColor) ==
    IF canPutSomewhere(board, map, Not(prevColor)) THEN Not(prevColor)
    ELSE IF canPutSomewhere(board, map, prevColor) THEN prevColor
    ELSE "null"

NewGame(m) ==
    LET board == [i \in 1..Len(m) |->
                    IF m[i] = "-" THEN "null"
                    ELSE IF m[i] = "b" THEN BLACK
                    ELSE IF m[i] = "w" THEN WHITE
                    ELSE "undefined"]
        map == [i \in 1..Len(m) |->
                    IF m[i] \in {"-", "b", "w"} THEN "empty" ELSE "null"]
    IN  [ map |-> map,
          board |-> board,
          turn |-> IF canPutSomewhere(board, map, BLACK) THEN BLACK
                   ELSE IF canPutSomewhere(board, map, WHITE) THEN WHITE
                   ELSE "null" ]

\* pos is the 0-based board index of the source
putStone(e, pos) ==
    IF e.turn = "null" THEN e
    ELSE LET color == e.turn
             eff == Effects(e.board, e.map, color, pos + 1)
             b2 == [i \in 1..Len(e.board) |->
                      IF i = pos + 1 \/ i \in eff THEN color ELSE e.board[i]]
         IN  [ e EXCEPT !.board = b2, !.turn = calcTurn(b2, e.map, color) ]

(***************************************************************************)
(* Inputs.                                                                 *)
(***************************************************************************)
Games ==
    [ map : Maps, canPutEverywhere : BOOLEAN, users : UserPairs, black : {1, 2},
      turn : {"undefined"} ]

user1Id(g) == g.users[1]

user2Id(g) == g.users[2]

\* the game of the _init_ message: the same game before it has started
InitGames == { g \in Games : g.black = 1 /\ ~g.canPutEverywhere /\ Len(g.map) = 3 }

Forms == { << [id |-> "publish", value |-> v] >> : v \in BOOLEAN }

\* the 'ended' message: msg.game.surrendered, msg.winnerId, and whether the
\* finished game was played in exhibition mode (settai), which no statement
\* of the session reads
EndedMsgs ==
    [ surrendered : BOOLEAN, winnerId : {"null", "me", "u1"},
      isExhibitionMode : BOOLEAN ]

Init ==
    /\ account = "undefined"
    /\ game = <<>>
    /\ form = <<>>
    /\ engine = <<>>
    /\ botColor = "undefined"
    /\ appliedOps = <<>>
    /\ maxTurn = <<>>
    /\ currentTurn = 0
    /\ thinks = <<>>
    /\ posts = <<>>
    /\ sent = 0
    /\ publishCalls = 0
    /\ exited = FALSE
    /\ exitCause = "none"
    /\ escaped = FALSE
    /\ text = "undefined"
    /\ posted = "undefined"
    /\ lastMsg = "none"
    /\ nEvents = 0
    /\ applyCount = [id \in LogIds \ {"null"} |-> 0]
    /\ logPos = [id \in LogIds \ {"null"} |-> -1]
    /\ sinceStarted = [ids |-> {}, anon |-> 0]

\* an inbound message is taken from the channel by a live process
Receive(type) ==
    /\ ~exited
    /\ nEvents < MaxEvents
    /\ nEvents' = nEvents + 1
    /\ lastMsg' = type

\* an error leaves the handler: onMessage's promise is rejected and nobody
\* handles it; the runtime either only warns or terminates the process
Throw(die) ==
    /\ escaped' = TRUE
    /\ exited' = die
    /\ exitCause' = IF die THEN "unhandledRejection" ELSE exitCause

onInit(g, f) ==
    /\ Receive("_init_")
    /\ game' = Some(g)
    /\ form' = f
    /\ account' = ME
    /\ UNCHANGED <<engine, botColor, appliedOps, maxTurn, currentTurn, thinks,
                   posts, sent, publishCalls, exited, exitCause, escaped, text,
                   posted,
                   applyCount, logPos, sinceStarted>>

\* boardStateToString(): one digit per cell, in board order
boardStateToString(board) ==
    [i \in 1..Len(board) |->
        IF board[i] = "null" THEN "0" ELSE IF board[i] = BLACK THEN "1" ELSE "2"]

\* the synchronous part of think(): the request that fetch() sends
think(e, g) ==
    Append(thinks, [ board |-> boardStateToString(e.board),
                     turn |-> IF g.turn = BLACK THEN 0 ELSE 1 ])

\* onStarted past the canPutEverywhere test
StartedBody(g) ==
    LET e == NewGame(g.map)
        bc == IF (user1Id(g) = account /\ g.black = 1)
                 \/ (user2Id(g) = account /\ g.black = 2) THEN "true" ELSE "false"
    IN  /\ engine' = Some(e)
        /\ maxTurn' = Some(Cardinality({i \in 1..Len(e.map) : e.map[i] = "empty"})
                           - Cardinality({i \in 1..Len(e.board) :
                                            e.board[i] \notin {"null", "undefined"}}))
        /\ sinceStarted' = [ids |-> {}, anon |-> 0]
        /\ applyCount' = [id \in LogIds \ {"null"} |-> 0]
        /\ logPos' = [id \in LogIds \ {"null"} |-> -1]
        /\ IF account = "undefined"
           THEN /\ \E die \in BOOLEAN : Throw(die)
                /\ UNCHANGED <<botColor, thinks>>
           ELSE /\ botColor' = bc
                /\ thinks' = IF bc = "true" THEN think(e, g) ELSE thinks
                /\ UNCHANGED <<exited, exitCause, escaped>>

onStarted_noExit(g) ==
    /\ Receive("started")
    /\ game' = Some(g)
    /\ sent' = IF g.canPutEverywhere THEN sent + 1 ELSE sent
    /\ StartedBody(g)
    /\ UNCHANGED <<account, form, appliedOps, currentTurn, posts, publishCalls,
                   text, posted>>

onStarted(g) ==
    /\ Receive("started")
    /\ game' = Some(g)
    /\ IF g.canPutEverywhere
       THEN /\ sent' = sent + 1
            /\ exited' = TRUE
            /\ exitCause' = "unsupported"
            /\ UNCHANGED <<engine, maxTurn, botColor, thinks, escaped,
                           applyCount, logPos, sinceStarted>>
       ELSE /\ sent' = sent
            /\ StartedBody(g)
    /\ UNCHANGED <<account, form, appliedOps, currentTurn, posts, publishCalls,
                   text, posted>>

\* the class declares no isSettai: the property reads undefined
isSettai == FALSE

\* the text selection with the winnerId test ahead of the surrendered test
Serif_winnerFirst(m) ==
    IF m.winnerId # "null"
    THEN IF m.winnerId = account
         THEN (IF isSettai THEN "iWonButSettai" ELSE "iWon")
         ELSE (IF isSettai THEN "iLoseButSettai" ELSE "iLose")
    ELSE IF m.surrendered
    THEN (IF isSettai THEN "settaiButYouSurrendered" ELSE "youSurrendered")
    ELSE (IF isSettai THEN "drawnSettai" ELSE "drawn")

\* the text selection of onEnded: the name of the serif it calls
Serif(m) ==
    IF m.surrendered
    THEN (IF isSettai THEN "settaiButYouSurrendered" ELSE "youSurrendered")
    ELSE IF m.winnerId # "null"
    THEN IF m.winnerId = account
         THEN (IF isSettai THEN "iWonButSettai" ELSE "iWon")
         ELSE (IF isSettai THEN "iLoseButSettai" ELSE "iLose")
    ELSE (IF isSettai THEN "drawnSettai" ELSE "drawn")

HasPublish(f) == \E i \in 1..Len(f) : f[i].id = "publish"

allowPost(f) == f[CHOOSE i \in 1..Len(f) : f[i].id = "publish"].value

\* onEnded with a post() that does not test allowPost
onEnded_alwaysPost(m) ==
    /\ Receive("ended")
    /\ sent' = sent + 1
    /\ IF game = <<>> \/ account = "undefined" \/ ~HasPublish(form)
       THEN /\ \E die \in BOOLEAN : Throw(die)
            /\ UNCHANGED <<text, posted, posts, publishCalls>>
       ELSE /\ text' = Serif(m)
            /\ posts' = Append(posts, Serif(m))
            /\ publishCalls' = publishCalls + 1
            /\ UNCHANGED <<posted, exited, exitCause, escaped>>
    /\ UNCHANGED <<account, game, form, engine, botColor, appliedOps, maxTurn,
                   currentTurn, thinks, applyCount, logPos, sinceStarted>>

\* onEnded up to the await of the publish request, or, when post() returns
\* without a request, up to process.exit()
onEnded(m) ==
    /\ Receive("ended")
    /\ sent' = sent + 1
    /\ IF game = <<>> \/ account = "undefined" \/ ~HasPublish(form)
       THEN /\ \E die \in BOOLEAN : Throw(die)
            /\ UNCHANGED <<text, posted, posts, publishCalls>>
       ELSE /\ text' = Serif(m)
            /\ IF allowPost(form)
               THEN /\ posts' = Append(posts, Serif(m))
                    /\ publishCalls' = publishCalls + 1
                    /\ UNCHANGED <<posted, exited, exitCause, escaped>>
               ELSE /\ posted' = "null"
                    /\ exited' = TRUE
                    /\ exitCause' = "ended"
                    /\ UNCHANGED <<posts, publishCalls, escaped>>
    /\ UNCHANGED <<account, game, form, engine, botColor, appliedOps, maxTurn,
                   currentTurn, thinks, applyCount, logPos, sinceStarted>>

Remove(q, i) == [j \in 1..(Len(q) - 1) |-> IF j < i THEN q[j] ELSE q[j + 1]]

\* post() without its try/catch: the error of a failed publish request
\* leaves onEnded before its process.exit()
postDone_noCatch(i, ok) ==
    /\ ~exited
    /\ i \in 1..Len(posts)
    /\ posts' = Remove(posts, i)
    /\ IF ok
       THEN /\ posted' = "createdNote"
            /\ exited' = TRUE
            /\ exitCause' = "ended"
            /\ UNCHANGED escaped
       ELSE /\ Throw(FALSE)
            /\ UNCHANGED posted
    /\ UNCHANGED <<account, game, form, engine, botColor, appliedOps, maxTurn,
                   currentTurn, thinks, sent, publishCalls, text,
                   lastMsg, nEvents, applyCount, logPos, sinceStarted>>

\* the publish request of the i-th suspended onEnded settles: fulfilled (ok),
\* post() returns the created note; rejected, post() logs the error and
\* returns null.  Either way onEnded goes on to process.exit()
postDone(i, ok) ==
    /\ ~exited
    /\ i \in 1..Len(posts)
    /\ posts' = Remove(posts, i)
    /\ posted' = IF ok THEN "createdNote" ELSE "null"
    /\ exited' = TRUE
    /\ exitCause' = "ended"
    /\ UNCHANGED <<account, game, form, engine, botColor, appliedOps, maxTurn,
                   currentTurn, thinks, sent, publishCalls, escaped, text,
                   lastMsg, nEvents, applyCount, logPos, sinceStarted>>

includes(ops, id) == \E i \in 1..Len(ops) : ops[i] = id

Applied(log) ==
    /\ applyCount' = IF log.id = "null" THEN applyCount
                     ELSE [applyCount EXCEPT ![log.id] = @ + 1]
    /\ logPos' = IF log.id = "null" THEN logPos
                 ELSE [logPos EXCEPT ![log.id] = log.pos]
    /\ sinceStarted' = IF log.id = "null"
                       THEN [sinceStarted EXCEPT !.anon = @ + 1]
                       ELSE [sinceStarted EXCEPT !.ids = @ \cup {log.id}]

\* onLog with the body of case 'put' run for every operation
onLog_anyOperation(log) ==
    /\ Receive("log")
    /\ IF log.id = "null" \/ ~includes(appliedOps, log.id)
       THEN IF engine = <<>>
            THEN /\ \E die \in BOOLEAN : Throw(die)
                 /\ UNCHANGED <<engine, currentTurn, thinks, applyCount, logPos,
                                sinceStarted>>
            ELSE LET e == putStone(engine[1], log.pos)
                 IN  /\ engine' = Some(e)
                     /\ currentTurn' = currentTurn + 1
                     /\ thinks' = IF e.turn = botColor THEN think(e, game[1])
                                  ELSE thinks
                     /\ Applied(log)
                     /\ UNCHANGED <<exited, exitCause, escaped>>
       ELSE UNCHANGED <<engine, currentTurn, thinks, applyCount, logPos,
                        sinceStarted, exited, exitCause, escaped>>
    /\ UNCHANGED <<account, game, form, botColor, appliedOps, maxTurn, posts,
                   sent, publishCalls, text, posted>>

onLog(log) ==
    /\ Receive("log")
    /\ IF (log.id = "null" \/ ~includes(appliedOps, log.id)) /\ log.operation = "put"
       THEN IF engine = <<>>
            THEN /\ \E die \in BOOLEAN : Throw(die)
                 /\ UNCHANGED <<engine, currentTurn, thinks, applyCount, logPos,
                                sinceStarted>>
            ELSE LET e == putStone(engine[1], log.pos)
                 IN  /\ engine' = Some(e)
                     /\ currentTurn' = currentTurn + 1
                     /\ thinks' = IF e.turn = botColor THEN think(e, game[1])
                                  ELSE thinks
                     /\ Applied(log)
                     /\ UNCHANGED <<exited, exitCause, escaped>>
       ELSE UNCHANGED <<engine, currentTurn, thinks, applyCount, logPos,
                        sinceStarted, exited, exitCause, escaped>>
    /\ UNCHANGED <<account, game, form, botColor, appliedOps, maxTurn, posts,
                   sent, publishCalls, text, posted>>

\* a message whose type no case of onMessage's switch names
onOther ==
    /\ Receive("other")
    /\ UNCHANGED <<account, game, form, engine, botColor, appliedOps, maxTurn,
                   currentTurn, thinks, posts, sent, publishCalls, exited,
                   exitCause, escaped, text, posted,
                   applyCount, logPos, sinceStarted>>

(***************************************************************************)
(* The inference service's answers.                                        *)
(***************************************************************************)
\* parseInt(s, 10) of the bodies the model uses; isNaN holds of its result
\* for a body that is no integer numeral
isNaN(s) == ~\E n \in -1..64 : ToString(n) = s

parseInt(s) == CHOOSE n \in -1..64 : ToString(n) = s

OnBoard(e, body) ==
    \E p \in 0..(Len(e.board) - 1) : ToString(p) = body

Bodies ==
    { ToString(p) : p \in 0..((IF engine = <<>> THEN 0 ELSE Len(engine[1].board)) - 1) }
    \cup { "64", "-1", "abc" }

Responses ==
    { [kind |-> "reject", ok |-> FALSE, body |-> ""],
      [kind |-> "response", ok |-> FALSE, body |-> ""] }
    \cup { [kind |-> "response", ok |-> TRUE, body |-> b] : b \in Bodies }

\* the rest of think() once the i-th outstanding fetch() settles with r
thinkResume(i, r) ==
    /\ ~exited
    /\ i \in 1..Len(thinks)
    /\ thinks' = Remove(thinks, i)
    /\ IF r.kind = "response" /\ r.ok
       THEN IF OnBoard(engine[1], r.body)
            THEN /\ engine' = Some(putStone(engine[1], parseInt(r.body)))
                 /\ currentTurn' = currentTurn + 1
                 /\ sinceStarted' = [sinceStarted EXCEPT !.anon = @ + 1]
            ELSE \* a position that is no cell of the board: the engine either
                 \* throws (caught by think) or returns with the cells as they were
                 \E throws \in BOOLEAN :
                    /\ engine' = engine
                    /\ currentTurn' = IF throws THEN currentTurn ELSE currentTurn + 1
                    /\ sinceStarted' = IF throws THEN sinceStarted
                                       ELSE [sinceStarted EXCEPT !.anon = @ + 1]
       ELSE UNCHANGED <<engine, currentTurn, sinceStarted>>
    /\ UNCHANGED <<account, game, form, botColor, appliedOps, maxTurn, posts,
                   sent, publishCalls, exited, exitCause, escaped, text, posted,
                   lastMsg,
                   nEvents, applyCount, logPos>>

\* the positions a log of the game's next move can carry: the parent relays
\* the moves the game server accepted, which are legal for the color to move
FreshPositions ==
    IF engine = <<>> THEN {0}
    ELSE { p \in 0..(Len(engine[1].board) - 1) :
             /\ engine[1].turn # "null"
             /\ canPut(engine[1].board, engine[1].map, engine[1].turn, p + 1) }

\* the logs the parent can deliver: the next move of the game, the same log
\* once more (same id, same position), or an operation that is no 'put'
Logs ==
    { [id |-> id, operation |-> "put", pos |-> p] :
        id \in { i \in LogIds : i = "null" \/ logPos[i] = -1 }, p \in FreshPositions }
    \cup { [id |-> id, operation |-> "put", pos |-> logPos[id]] :
              id \in { i \in LogIds : i # "null" /\ logPos[i] # -1 } }
    \cup { [id |-> id, operation |-> "surrender", pos |-> 0] : id \in LogIds }

Next ==
    \/ \E g \in InitGames, f \in Forms : onInit(g, f)
    \/ \E g \in Games : onStarted(g)
    \/ \E m \in EndedMsgs : onEnded(m)
    \/ \E log \in Logs : onLog(log)
    \/ onOther
    \/ \E i \in 1..Len(thinks), r \in Responses : thinkResume(i, r)
    \/ \E i \in 1..Len(posts), ok \in BOOLEAN : postDone(i, ok)

Spec == Init /\ [][Next]_vars

\* a publish request that was issued settles, and the event loop then runs
\* the continuation of the onEnded that awaits it
FairSpec == Spec /\ WF_vars(\E i \in 1..Len(posts), ok \in BOOLEAN : postDone(i, ok))

(***************************************************************************)
(* Notions the properties use.                                             *)
(***************************************************************************)
\* the session's account is one of the two players of the game
IsPlayer(g, a) == a = user1Id(g) \/ a = user2Id(g)

\* the color the account plays in game g
PlayedColor(g, a) ==
    IF (a = user1Id(g) /\ g.black = 1) \/ (a = user2Id(g) /\ g.black = 2)
    THEN BLACK ELSE WHITE

\* this step is the handling of an inbound message of the given type
Handled(type) == nEvents' = nEvents + 1 /\ lastMsg' = type

\* this step invoked think(): a handler added a request, or the resumed
\* think() that retired its own request added a new one
ThinkTriggered ==
    IF nEvents' = nEvents + 1 THEN Len(thinks') = Len(thinks) + 1
    ELSE Len(thinks') = Len(thinks)

\* this step applied a move that captured: the placed stone and at least
\* one flipped stone changed on the board
Captured ==
    /\ engine # <<>>
    /\ engine' # <<>>
    /\ Len(engine'[1].board) = Len(engine[1].board)
    /\ Cardinality({ i \in 1..Len(engine[1].board) :
                       engine'[1].board[i] # engine[1].board[i] }) >= 2

\* the response is one that the inference interface accepts
ValidResponse(r) ==
    /\ r.kind = "response"
    /\ r.ok
    /\ ~isNaN(r.body)
    /\ parseInt(r.body) >= 0
    /\ parseInt(r.body) <= 63

(***************************************************************************)
(* C1: a 'put' log whose non-null id was carried by an earlier applied log *)
(* of the session leaves currentTurn and the engine unchanged and triggers *)
(* no think(): every operation id is applied at most once.                 *)
(***************************************************************************)
C1_DuplicateLogIsNoOp ==
    [][ \A log \in Logs :
          ( /\ ~escaped
            /\ log.operation = "put"
            /\ log.id # "null"
            /\ applyCount[log.id] >= 1
            /\ onLog(log) )
          => ( /\ currentTurn' = currentTurn
               /\ engine' = engine
               /\ thinks' = thinks
               /\ applyCount'[log.id] <= 1 ) ]_vars

(***************************************************************************)
(* C2: at most one think() is in flight per session at any time: the       *)
(* number of outstanding inference requests never exceeds 1.               *)
(***************************************************************************)
C2_AtMostOneThinkInFlight ==
    [][ (~escaped /\ Handled("log") /\ Len(thinks) <= 1) => Len(thinks') <= 1 ]_vars

(***************************************************************************)
(* C3: over the whole session the outbound {type: 'ended'} message is sent *)
(* at most once and at most one publish call is made, also when a second   *)
(* 'ended' arrives while the first one's publish is pending.  (Stated for  *)
(* the sessions in which no handler has failed and no unsupported variant  *)
(* was met, where only onEnded sends and publishes.)                       *)
(***************************************************************************)
C3_EndedAtMostOnce ==
    (~escaped /\ exitCause # "unsupported") => (sent <= 1 /\ publishCalls <= 1)

(***************************************************************************)
(* C4: after 'started', currentTurn equals the number of distinct          *)
(* operations applied to the engine since the most recent 'started':       *)
(* distinct logged ids, plus logged moves without id, plus think() moves.  *)
(***************************************************************************)
C4_TurnCountsDistinctOps ==
    (engine # <<>> /\ ~escaped)
    => currentTurn = Cardinality(sinceStarted.ids) + sinceStarted.anon

(***************************************************************************)
(* C5: after 'started', currentTurn never exceeds maxTurn.                 *)
(***************************************************************************)
C5_TurnWithinMaxTurn ==
    (engine # <<>> /\ ~escaped) => currentTurn <= maxTurn[1]

(***************************************************************************)
(* C6: a session whose account is neither user1 nor user2 of the game      *)
(* never invokes think().                                                  *)
(***************************************************************************)
C6_SpectatorNeverThinks ==
    [][ ( /\ game' # <<>>
          /\ account' # "undefined"
          /\ ~IsPlayer(game'[1], account') )
        => Len(thinks') <= Len(thinks) ]_vars

(***************************************************************************)
(* C7: 'started' with canPutEverywhere sends {type: 'ended'} and exits the *)
(* process without constructing the engine or calling think(), and nothing *)
(* of the session runs after the exit.                                     *)
(***************************************************************************)
C7_UnsupportedVariantTerminates ==
    [][ /\ (Handled("started") /\ game'[1].canPutEverywhere)
           => ( /\ sent' = sent + 1
                /\ exited'
                /\ exitCause' = "unsupported"
                /\ engine' = engine
                /\ thinks' = thinks )
        /\ exited => (engine' = engine /\ thinks' = thinks /\ sent' = sent) ]_vars

C7_Witness ==
    /\ exited
    /\ exitCause = "unsupported"
    /\ account = ME
    /\ game[1].canPutEverywhere
    /\ sent = 1
    /\ engine = <<>>

(***************************************************************************)
(* C8: whenever onStarted or onLog triggers think(), the engine's active   *)
(* color is the color the session plays and the session is a player.       *)
(***************************************************************************)
C8_ThinkOnlyOnOwnTurn ==
    [][ ( /\ (Handled("started") \/ Handled("log"))
          /\ Len(thinks') = Len(thinks) + 1 )
        => ( /\ IsPlayer(game'[1], account')
             /\ engine'[1].turn = PlayedColor(game'[1], account') ) ]_vars

(***************************************************************************)
(* C9: after 'started' and after every move applied to the engine (by      *)
(* onLog or by think()), if the engine's active color is the color the     *)
(* session plays, a think() is triggered for that turn.  (Stated for the   *)
(* moves that capture, made while at most one request is outstanding.)     *)
(***************************************************************************)
C9_ThinkWheneverOwnTurn ==
    [][ ( /\ ~escaped'
          /\ ~exited'
          /\ engine' # <<>>
          /\ (Handled("started") \/ (currentTurn' = currentTurn + 1 /\ Captured))
          /\ Len(thinks) <= 1
          /\ IsPlayer(game'[1], account')
          /\ engine'[1].turn = PlayedColor(game'[1], account') )
        => ThinkTriggered ]_vars

(***************************************************************************)
(* C10: think() changes the engine and currentTurn only for a response     *)
(* with a success status whose body is an integer within [0,63]; after a   *)
(* transport failure, a non-success status, a non-integer body or an       *)
(* out-of-range integer both are unchanged and no error escapes.           *)
(***************************************************************************)
C10_OnlyValidResponseApplied ==
    [][ \A i \in 1..Len(thinks), r \in Responses :
          (thinkResume(i, r) /\ ~ValidResponse(r))
          => (engine' = engine /\ currentTurn' = currentTurn /\ escaped' = escaped) ]_vars

(***************************************************************************)
(* C11: once an 'ended' has been received the session no longer reacts to  *)
(* 'log' messages or to inference responses: while the publish of onEnded  *)
(* is pending, a handled 'log' and a settled inference request leave the   *)
(* engine and currentTurn unchanged and trigger no think().                *)
(***************************************************************************)
C11_NoReactionAfterEnded ==
    [][ ( /\ ~escaped
          /\ posts # <<>>
          /\ (Handled("log") \/ nEvents' = nEvents) )
        => ( /\ engine' = engine
             /\ currentTurn' = currentTurn
             /\ Len(thinks') <= Len(thinks) ) ]_vars

(***************************************************************************)
(* C12: whatever the sequence of inbound messages, no error leaves a       *)
(* handler, and the process terminates only by the unsupported-variant     *)
(* exit of onStarted or the end-of-game exit of onEnded.                   *)
(***************************************************************************)
C12_NoErrorEscapes ==
    /\ ~escaped
    /\ exitCause \in {"none", "unsupported", "ended"}

(***************************************************************************)
(* C13: after an 'ended' received by an initialized session the process    *)
(* eventually exits, whether the publish succeeds, fails or is disabled;   *)
(* a failed publish does not keep onEnded from its exit, and the           *)
(* completion of a publish request never issues another one.               *)
(***************************************************************************)
C13_EndedTerminates ==
    /\ (lastMsg = "ended" /\ account # "undefined") ~> exited
    /\ [][ nEvents' = nEvents => publishCalls' = publishCalls ]_vars

\* the publish request of onEnded failed, and the process exited all the same
C13_Witness ==
    /\ exited
    /\ exitCause = "ended"
    /\ account = ME
    /\ publishCalls = 1
    /\ posted = "null"

(***************************************************************************)
(* The outcome of a finished game as the tie-break rule names it, and the  *)
(* serifs that tell each outcome (normal and exhibition-mode variant).     *)
(***************************************************************************)
OutcomeOf(m) ==
    IF m.surrendered THEN "opponent-surrendered"
    ELSE IF m.winnerId = "null" THEN "draw"
    ELSE IF m.winnerId = account THEN "self-won"
    ELSE "self-lost"

NormalKey(outcome) ==
    CASE outcome = "opponent-surrendered" -> "youSurrendered"
      [] outcome = "self-won" -> "iWon"
      [] outcome = "self-lost" -> "iLose"
      [] outcome = "draw" -> "drawn"

ExhibitionKey(outcome) ==
    CASE outcome = "opponent-surrendered" -> "settaiButYouSurrendered"
      [] outcome = "self-won" -> "iWonButSettai"
      [] outcome = "self-lost" -> "iLoseButSettai"
      [] outcome = "draw" -> "drawnSettai"

(***************************************************************************)
(* C14: the serif onEnded chooses tells the outcome of the tie-break rule  *)
(* for every 'ended' message: surrendered wins over winnerId; else a       *)
(* winnerId equal to the own account id is self-won, any other winnerId    *)
(* self-lost; else draw.                                                   *)
(***************************************************************************)
C14_OutcomeTieBreak ==
    [][ \A m \in EndedMsgs :
          (onEnded(m) /\ game # <<>> /\ account # "undefined")
          => text' \in { NormalKey(OutcomeOf(m)), ExhibitionKey(OutcomeOf(m)) } ]_vars

\* an 'ended' that reported a surrender was handled by an initialized session
C14_Witness ==
    /\ lastMsg = "ended"
    /\ account = ME
    /\ ~escaped
    /\ text = "youSurrendered"

(***************************************************************************)
(* C15: for each of the four outcomes onEnded chooses the exhibition-mode  *)
(* serif when the session's game was played in exhibition mode and the     *)
(* normal serif when it was not.                                           *)
(***************************************************************************)
C15_ExhibitionVariant ==
    [][ \A m \in EndedMsgs :
          (onEnded(m) /\ game # <<>> /\ account # "undefined")
          => text' = IF m.isExhibitionMode THEN ExhibitionKey(OutcomeOf(m))
                     ELSE NormalKey(OutcomeOf(m)) ]_vars

(***************************************************************************)
(* C16: a publish request is issued only while the form's publish item is  *)
(* true; an onEnded of a session whose publish item is false issues no     *)
(* request and gets null from post().                                      *)
(***************************************************************************)
C16_PublishOnlyWhenAllowed ==
    [][ /\ (publishCalls' # publishCalls \/ Len(posts') > Len(posts))
           => (form # <<>> /\ allowPost(form))
        /\ (Handled("ended") /\ form # <<>> /\ ~allowPost(form))
           => (publishCalls' = publishCalls /\ posts' = posts /\ posted' = "null") ]_vars

\* a session whose publish item is false has ended without a publish request
C16_Witness ==
    /\ exited
    /\ exitCause = "ended"
    /\ form # <<>>
    /\ ~allowPost(form)
    /\ publishCalls = 0
    /\ posted = "null"

(***************************************************************************)
(* C17: the turn indicator of every inference request tells the color to   *)
(* move when the request is made: 0 when the engine's turn is black, 1     *)
(* when it is white.                                                       *)
(***************************************************************************)
C17_TurnIndicatorIsActiveColor ==
    [][ (nEvents' = nEvents + 1 /\ Len(thinks') = Len(thinks) + 1)
        => thinks'[Len(thinks')].turn = (IF engine'[1].turn = BLACK THEN 0 ELSE 1) ]_vars

(***************************************************************************)
(* C18: a message of a type onMessage does not name, and a 'log' whose     *)
(* operation is not 'put', leave the session's state as it was, trigger no *)
(* think(), send no message and issue no publish request.                  *)
(***************************************************************************)
C18_UnrecognizedInputIsNoOp ==
    [][ (onOther \/ \E log \in Logs : (log.operation # "put" /\ onLog(log)))
        => UNCHANGED <<account, game, form, engine, botColor, appliedOps,
                       maxTurn, currentTurn, thinks, posts, sent, publishCalls,
                       exited, exitCause, escaped, text, posted>> ]_vars

\* a started session has handled a 'log' that applied nothing
C18_Witness ==
    /\ lastMsg = "log"
    /\ engine # <<>>
    /\ ~escaped
    /\ ~exited
    /\ currentTurn = 0
    /\ sent = 0

(***************************************************************************)
(* C19: when think() applies the position the inference service returned,  *)
(* the engine's board is the board the request encoded and the engine's    *)
(* turn is still the bot's color: no move was applied between the request  *)
(* and its response.  (Stated for the responses that settle when the       *)
(* latest message handled was a 'log'.)                                    *)
(***************************************************************************)
C19_MoveAppliedToRequestedBoard ==
    [][ \A i \in 1..Len(thinks), r \in Responses :
          ( /\ ~escaped
            /\ lastMsg = "log"
            /\ thinkResume(i, r)
            /\ r.kind = "response"
            /\ r.ok
            /\ OnBoard(engine[1], r.body) )
          => ( /\ boardStateToString(engine[1].board) = thinks[i].board
               /\ engine[1].turn = botColor ) ]_vars
====
